---------------------------- MODULE Spec2Model ----------------------------
(***************************************************************************)
(* LogDB: a key-value server (PUT / GET / DEL over TCP and UDP) built from *)
(* a write-ahead log, an in-memory LSM index and a partitioned disk store. *)
(*                                                                         *)
(* The WAL (package wal) and the server (package main) are translated from *)
(* their Go source.  The LSM index and the Disk Store are packages whose   *)
(* source is not part of the source tree at hand; their operations are     *)
(* modelled from the specification (sections 4.2 - 4.4).                   *)
(*                                                                         *)
(* The WAL file and the bufio buffer in front of it are sequences of       *)
(* one-character strings, so that framing, replay and torn records are     *)
(* computed on bytes as the code computes them.                            *)
(***************************************************************************)
EXTENDS Integers, Sequences, FiniteSets, TLC

(***************************************************************************)
(* Bounds of the model.                                                    *)
(***************************************************************************)
\* commands the clients issue over the whole run
MaxCmds == 3
\* bytes of the UDP loop's receive buffer (s.UDPBufferSize)
UDPBufferSize == 7
\* calls into the WAL made by the tasks that share it
MaxCalls == 4
\* lines of a WAL file found at startup
MaxLines == 3
\* capacity in bytes of the bufio.Writer in front of the WAL file
\* (bufio's default is 4096; scaled down so that a buffer fills up)
BufSize == 8

(***************************************************************************)
(* Tokens.  A key or a value is a sequence of characters.  A task is the   *)
(* goroutine serving a TCP connection, or the goroutines serving the       *)
(* packets of a UDP client that sends a packet once the last is answered.  *)
(***************************************************************************)
Keys == {<<"a">>}
Values == {<<"x">>, <<"y">>}
Conns == {"c1", "c2"}
Udps == {"u1"}
Tasks == Conns \cup Udps

Pipe == "|"
NL == "\n"

\* the verbs of the protocol, and a word that is none of them
PUT == <<"P", "U", "T">>
GET == <<"G", "E", "T">>
DEL == <<"D", "E", "L">>
Verbs == {PUT, GET, DEL, <<"F", "O", "O">>}

\* command lines as strings.Fields splits them: no token at all, a verb
\* alone, a verb with one, two or three arguments
Lines ==
    {<<>>}
    \cup {<<v>> : v \in Verbs}
    \cup {<<v, k>> : v \in Verbs, k \in Keys}
    \cup {<<v, k, x>> : v \in Verbs, k \in Keys, x \in Values}
    \cup {<<PUT, k, x, x>> : k \in Keys, x \in Values}

(***************************************************************************)
(* The WAL: w = [file, buf, err].  file is the content of the WAL file,    *)
(* buf the bytes staged in the bufio.Writer, err the writer's sticky       *)
(* error (set by a failed flush, cleared only by Reset).                   *)
(***************************************************************************)
Available(w) == BufSize - Len(w.buf)

\* bufio.Writer.Flush: an earlier error is returned again; an empty buffer
\* is a no-op; otherwise the buffer is appended to the file, or the write
\* fails and the error sticks.
Flush(w, ioOk) ==
    IF w.err THEN w
    ELSE IF w.buf = <<>> THEN w
    ELSE IF ioOk THEN [w EXCEPT !.file = w.file \o w.buf, !.buf = <<>>]
    ELSE [w EXCEPT !.err = TRUE]

\* bufio.Writer.Write / WriteString of the bytes p.
RECURSIVE BufWrite(_, _, _)
BufWrite(w, p, ioOk) ==
    IF Len(p) > Available(w) /\ ~w.err
    THEN IF w.buf = <<>>
         THEN \* larger than the whole buffer: written straight to the file
              IF ioOk THEN [w EXCEPT !.file = w.file \o p]
              ELSE [w EXCEPT !.err = TRUE]
         ELSE LET n == Available(w)
                  w1 == Flush([w EXCEPT !.buf = w.buf \o SubSeq(p, 1, n)], ioOk)
              IN BufWrite(w1, SubSeq(p, n + 1, Len(p)), ioOk)
    ELSE IF w.err THEN w
    ELSE [w EXCEPT !.buf = w.buf \o p]

\* The loop of WAL.Write over its arguments: each is written followed by
\* the delimiter; the first failure ends the loop (the sticky error makes
\* the remaining writes no-ops).
RECURSIVE WriteArgs(_, _, _)
WriteArgs(w, data, ioOk) ==
    IF data = <<>> \/ w.err THEN w
    ELSE WriteArgs(BufWrite(w, Head(data) \o <<Pipe>>, ioOk), Tail(data), ioOk)

\* WAL.Write(data...): flush first when fewer bytes are free than there
\* are ARGUMENTS (len(data) counts the arguments, not their bytes), then
\* the arguments, then the newline.  The call returns an error exactly
\* when the result has err set.
WalWrite(w, data, ioOk) ==
    LET w0 == IF Len(data) > Available(w) THEN Flush(w, ioOk) ELSE w
        w1 == WriteArgs(w0, data, ioOk)
    IN IF w0.err THEN w0
       ELSE IF w1.err THEN w1
       ELSE BufWrite(w1, <<NL>>, ioOk)

\* WAL.Persist: flush, fsync, Reset.  A failed flush or a failed fsync is
\* returned before Reset is reached.
PersistOk(w, ioOk, syncOk) == ~Flush(w, ioOk).err /\ syncOk

WalPersist(w, ioOk, syncOk) ==
    LET w1 == Flush(w, ioOk)
    IN IF PersistOk(w, ioOk, syncOk)
       THEN [w1 EXCEPT !.buf = <<>>, !.err = FALSE]
       ELSE w1

\* WAL.Truncate: the file is emptied and its offset reset; the bufio
\* buffer is not touched.
WalTruncate(w) == [w EXCEPT !.file = <<>>]

(***************************************************************************)
(* Replay: strings.Split on newline, then on pipe.                         *)
(***************************************************************************)
\* strings.Split(s, sep) for a one-character separator: the fields
\* between the separators, empty fields included.
RECURSIVE SplitAcc(_, _, _, _)
SplitAcc(s, sep, cur, acc) ==
    IF s = <<>> THEN Append(acc, cur)
    ELSE IF Head(s) = sep THEN SplitAcc(Tail(s), sep, <<>>, Append(acc, cur))
    ELSE SplitAcc(Tail(s), sep, Append(cur, Head(s)), acc)

Split(s, sep) == SplitAcc(s, sep, <<>>, <<>>)

\* The entry a line of the WAL parses to, or NoEntry for a line the
\* replay skips.
NoEntry == [op |-> "skip", key |-> <<>>, val |-> <<>>]

\* a parser that tells the operation by the first character of the line
ParseLinePrefix(cmd) ==
    LET args == Split(cmd, Pipe)
    IN IF cmd = <<>> THEN NoEntry
       ELSE IF cmd[1] = "+"
            THEN IF Len(args) # 4 THEN NoEntry
                 ELSE [op |-> "put", key |-> args[2], val |-> args[3]]
       ELSE IF cmd[1] = "-"
            THEN IF Len(args) # 3 THEN NoEntry
                 ELSE [op |-> "del", key |-> args[2], val |-> <<>>]
       ELSE NoEntry

\* a parser that does not expect the empty field after the last delimiter
ParseLineNoTrailer(cmd) ==
    LET args == Split(cmd, Pipe)
    IN IF cmd = <<>> THEN NoEntry
       ELSE IF args[1] = <<"+">>
            THEN IF Len(args) # 3 THEN NoEntry
                 ELSE [op |-> "put", key |-> args[2], val |-> args[3]]
       ELSE IF args[1] = <<"-">>
            THEN IF Len(args) # 2 THEN NoEntry
                 ELSE [op |-> "del", key |-> args[2], val |-> <<>>]
       ELSE NoEntry

ParseLine(cmd) ==
    LET args == Split(cmd, Pipe)
    IN IF cmd = <<>> THEN NoEntry
       ELSE IF args[1] = <<"+">>
            THEN IF Len(args) # 4 THEN NoEntry
                 ELSE [op |-> "put", key |-> args[2], val |-> args[3]]
       ELSE IF args[1] = <<"-">>
            THEN IF Len(args) # 3 THEN NoEntry
                 ELSE [op |-> "del", key |-> args[2], val |-> <<>>]
       ELSE NoEntry

\* WAL.ReadEntries: the entries of the file, in file order.
RECURSIVE EntriesOf(_)
EntriesOf(cmds) ==
    IF cmds = <<>> THEN <<>>
    ELSE LET e == ParseLine(Head(cmds))
         IN IF e.op = "skip" THEN EntriesOf(Tail(cmds))
            ELSE <<e>> \o EntriesOf(Tail(cmds))

ReadEntries(file) == EntriesOf(Split(file, NL))

\* Lines a WAL file may hold at startup: records as Write frames them,
\* and lines of other shapes (cut short, too many fields, another
\* operation code, an operation code followed by more text, empty fields).
ReplayLines ==
    { <<>>,
      <<"+", "|", "a", "|", "x", "|">>,
      <<"+", "|", "a", "|", "y", "|">>,
      <<"-", "|", "a", "|">>,
      <<"+", "|", "a", "|", "x">>,
      <<"+", "|", "a", "|", "x", "|", "y", "|">>,
      <<"-", "|", "a">>,
      <<"-", "|", "a", "|", "x", "|">>,
      <<"+", "a", "|", "a", "|", "x", "|">>,
      <<"-", "a", "|", "a", "|">>,
      <<"*", "|", "a", "|", "x", "|">>,
      <<"+", "|", "a", "|", "|">>,
      <<"+", "|", "|", "x", "|">>,
      <<"+">> }

\* the content of a file of the given lines
RECURSIVE JoinLines(_)
JoinLines(ls) ==
    IF ls = <<>> THEN <<>>
    ELSE IF Len(ls) = 1 THEN Head(ls)
    ELSE Head(ls) \o <<NL>> \o JoinLines(Tail(ls))

ReplayFiles ==
    {JoinLines(ls) : ls \in UNION {[1..n -> ReplayLines] : n \in 0..MaxLines}}

(***************************************************************************)
(* The LSM index: l = [mem, bloom].  mem maps the keys of the memtable to  *)
(* [del, val] (del marks a tombstone); bloom is the set of keys inserted   *)
(* into the Bloom filter.  The Disk Store is a map from its keys to their  *)
(* values.                                                                 *)
(***************************************************************************)
EmptyMap == [k \in {} |-> <<>>]
EmptyLsm == [mem |-> EmptyMap, bloom |-> {}]

MapPut(m, k, v) == [x \in DOMAIN m \cup {k} |-> IF x = k THEN v ELSE m[x]]

\* a put that leaves the Bloom filter alone
LsmPutUnfiltered(l, k, v) ==
    [mem |-> MapPut(l.mem, k, [del |-> FALSE, val |-> v]),
     bloom |-> l.bloom]

\* put(key, value): insert or overwrite in the memtable, insert the key
\* into the Bloom filter.
LsmPut(l, k, v) ==
    [mem |-> MapPut(l.mem, k, [del |-> FALSE, val |-> v]),
     bloom |-> l.bloom \cup {k}]

\* del(key): insert a tombstone in the memtable; the filter is not updated.
LsmDel(l, k) ==
    [mem |-> MapPut(l.mem, k, [del |-> TRUE, val |-> <<>>]),
     bloom |-> l.bloom]

NotFound == [found |-> FALSE, val |-> <<>>]
Found(v) == [found |-> TRUE, val |-> v]

\* DiskStore.get(key): look up in the owning partition.
DiskGet(d, k) == IF k \in DOMAIN d THEN Found(d[k]) ELSE NotFound

\* a get that takes the filter's absence for the answer
LsmGetShadowed(l, d, k) ==
    IF k \notin l.bloom THEN NotFound
    ELSE IF k \in DOMAIN l.mem
         THEN IF l.mem[k].del THEN NotFound ELSE Found(l.mem[k].val)
         ELSE DiskGet(d, k)

\* a get that goes on to the Disk Store when it hits a tombstone
LsmGetFallsThrough(l, d, k) ==
    IF k \notin l.bloom THEN DiskGet(d, k)
    ELSE IF k \in DOMAIN l.mem /\ ~l.mem[k].del THEN Found(l.mem[k].val)
    ELSE DiskGet(d, k)

\* get(key): filter absence skips the memtable; a tombstone is NotFound
\* at once; a miss falls through to the Disk Store.
LsmGet(l, d, k) ==
    IF k \notin l.bloom THEN DiskGet(d, k)
    ELSE IF k \in DOMAIN l.mem
         THEN IF l.mem[k].del THEN NotFound ELSE Found(l.mem[k].val)
         ELSE DiskGet(d, k)

\* DiskStore.ingest(frozen memtable): every entry is merged into its
\* partition; a tombstone removes the key.
Ingest(d, mem) ==
    [k \in (DOMAIN d \cup {x \in DOMAIN mem : ~mem[x].del})
            \ {x \in DOMAIN mem : mem[x].del}
        |-> IF k \in DOMAIN mem THEN mem[k].val ELSE d[k]]

\* DiskStore.loadInto(lsm): every (key, value) on disk is put into the sink.
LoadInto(l, d) ==
    [mem |-> [k \in DOMAIN l.mem \cup DOMAIN d |->
                 IF k \in DOMAIN d THEN [del |-> FALSE, val |-> d[k]]
                 ELSE l.mem[k]],
     bloom |-> l.bloom \cup DOMAIN d]

\* WAL.InitDB: the entries of the file applied to the LSM index in order.
RECURSIVE ApplyEntries(_, _)
ApplyEntries(l, es) ==
    IF es = <<>> THEN l
    ELSE ApplyEntries(IF Head(es).op = "put"
                      THEN LsmPut(l, Head(es).key, Head(es).val)
                      ELSE LsmDel(l, Head(es).key),
                      Tail(es))

\* a replay that walks the entries from the last to the first
InitDBBackwards(l, file) ==
    LET es == ReadEntries(file)
    IN ApplyEntries(l, [i \in 1..Len(es) |-> es[Len(es) + 1 - i]])

InitDB(l, file) == ApplyEntries(l, ReadEntries(file))

\* DiskStore.LoadFromDisk(lsm, wal): disk load, then WAL replay on top.
LoadFromDisk(l, d, file) == InitDB(LoadInto(l, d), file)


(***************************************************************************)
(* State.                                                                  *)
(***************************************************************************)
VARIABLES
    wal,        \* the WAL: [file, buf, err]
    lsm,        \* the LSM index: [mem, bloom]
    disk,       \* the Disk Store
    phase,      \* "up" while the server process runs, "down" otherwise
    main,       \* Server.Start's main goroutine: "wait_load", "serving"
    loader,     \* the data loading goroutine: "load", "signal", "done"
    dataLoadSignal,              \* messages in the channel (capacity 1)
    startPersistingCycleSignal,  \* messages in the channel (capacity 1)
    cyc,        \* PersistToDisk: "off", "wait", "tick", "persist", "truncate"
    sig,        \* the shutdown goroutine: "off", "wait", "persist", "exit"
    pc,         \* per task: "idle", "put_lsm", "del_lsm", "get_lsm"
    cur,        \* per task: the command in progress
    reply,      \* per task: the last reply sent
    active,     \* the tasks that have a client behind them
    line,       \* per task: the last command line read from its client
    mu,         \* the WAL's lock: the task that holds it, or "none"
    wdata,      \* per task inside WAL.Write: the arguments still to write
    udp,        \* the UDP loop: its receive buffer, the datagram being
                \* received, and the handlers started on slices of the buffer
    walLog,     \* the records the WAL has accepted, in order, and the
                \* bytes its writer has taken, and how many of the
                \* records the last Truncate found written (history)
    ncmds,      \* commands issued so far (a command's number is its id)
    \* history variables (they record, and steer nothing)
    persisted,  \* ids whose record a successful Persist has synced
    applied,    \* ids applied to the LSM index of this process
    ingested,   \* ids whose effect the Disk Store has ingested
    fileIds,    \* ids with bytes in the WAL file
    bufIds,     \* ids with bytes in the bufio buffer
    memSrc,     \* key -> id of the mutation whose entry the memtable holds
    lastAck,    \* key -> the last mutation of the key answered OK
    obs,        \* per task: what its last answered GET saw
    recovered,  \* LoadFromDisk has returned without error in this process
    served,     \* a client command has been taken up in this process
    downBy,     \* how the last process ended: "none", "crash", "exit", "panic"
    exitSync,   \* the result of the shutdown handler's Persist
    acked,      \* ids answered OK in this process
    exitLost,   \* at an exit: acknowledged ids neither in the file nor on disk
    crashView,  \* at a crash: key -> what GET returned for acknowledged keys
    recView     \* after the recovery that follows: what GET returns for them
                \* (both kept until the recovered server takes up a command)

store == <<wal, lsm, disk>>
ctl == <<phase, main, loader, dataLoadSignal, startPersistingCycleSignal, cyc, sig>>
lck == <<mu, wdata>>
env == <<active, udp, line, lck, walLog>>
tasks == <<pc, cur, reply, env>>
walHist == <<persisted, fileIds, bufIds>>
lsmHist == <<applied, ingested, memSrc>>
cliHist == <<lastAck, obs>>
lifeHist == <<recovered, served, downBy, exitSync, acked, exitLost, crashView, recView>>
vars == <<store, ctl, tasks, ncmds, walHist, lsmHist, cliHist, lifeHist>>

NoCmd == [op |-> "none", key |-> <<>>, val |-> <<>>, id |-> 0,
          exp |-> NotFound, hasExp |-> FALSE, by |-> "none", quiet |-> FALSE,
          mustSee |-> {}, walOk |-> FALSE]
NoReply == [kind |-> "none", val |-> <<>>]
NoLine == [got |-> FALSE, cmd |-> <<>>]

\* the goroutines started by the UDP loop
Handlers == {"h1", "h2"}
NUL == "nul"
\* a handler not started; started, it has the length n of its slice
\* buf[:n], the datagram that was received for it (history), and the bytes
\* of request := string(packet) copied so far
NoHandler == [st |-> "free", n |-> 0, own |-> <<>>, req |-> <<>>]
\* buf := make([]byte, s.UDPBufferSize); no datagram being received
NoUdp == [buf |-> [i \in 1..UDPBufferSize |-> NUL], rx |-> <<>>, pos |-> 0,
          h |-> [x \in Handlers |-> NoHandler]]
NoLog == [recs |-> <<>>, synced |-> FALSE, bytes |-> <<>>, cut |-> 0]
NoObs == [key |-> <<>>, res |-> NotFound, seen |-> FALSE,
          exp |-> NotFound, hasExp |-> FALSE, by |-> "none", quiet |-> FALSE,
          srcOk |-> TRUE, missed |-> FALSE, errId |-> 0, walOk |-> FALSE]

Mutating == {"put_lsm", "del_lsm"}

\* a mutation of key k is between its WAL append and its acknowledgement
InFlight(k) == \E t \in Tasks : pc[t] \in Mutating /\ cur[t].key = k

(***************************************************************************)
(* Construction: main() -> NewServer.  A fresh install: no partition       *)
(* files, an empty WAL file just created, nothing in memory; Server.Start  *)
(* has opened its listeners and started the data loading goroutine.        *)
(***************************************************************************)
InitOver(act, file, d) ==
    /\ wal = [file |-> file, buf |-> <<>>, err |-> FALSE]
    /\ lsm = EmptyLsm
    /\ disk = d
    /\ phase = "up"
    /\ main = "wait_load"
    /\ loader = "load"
    /\ dataLoadSignal = 0
    /\ startPersistingCycleSignal = 0
    /\ cyc = "off"
    /\ sig = "off"
    /\ pc = [t \in Tasks |-> "idle"]
    /\ cur = [t \in Tasks |-> NoCmd]
    /\ reply = [t \in Tasks |-> NoReply]
    /\ active = act
    /\ line = [t \in Tasks |-> NoLine]
    /\ udp = NoUdp
    /\ mu = "none"
    /\ wdata = [t \in Tasks |-> <<>>]
    /\ walLog = NoLog
    /\ ncmds = 0
    /\ persisted = {}
    /\ applied = {}
    /\ ingested = {}
    /\ fileIds = {}
    /\ bufIds = {}
    /\ memSrc = EmptyMap
    /\ lastAck = EmptyMap
    /\ obs = [t \in Tasks |-> NoObs]
    /\ recovered = FALSE
    /\ served = FALSE
    /\ downBy = "none"
    /\ exitSync = FALSE
    /\ acked = {}
    /\ exitLost = {}
    /\ crashView = EmptyMap
    /\ recView = EmptyMap

InitWith(act) == InitOver(act, <<>>, EmptyMap)


(***************************************************************************)
(* The environment's I/O: a write to the WAL file, an fsync of it or the   *)
(* load at startup succeeds (TRUE) or fails (FALSE).                       *)
(***************************************************************************)
IoOutcomes == BOOLEAN

(***************************************************************************)
(* History of the WAL's bytes.                                             *)
(***************************************************************************)
\* after WAL.Write turned w into w2 for mutation id
WriteHist(w, w2, id) ==
    LET flushed == Len(w2.file) > Len(w.file)
        own == Len(w2.file) - Len(w.file) > Len(w.buf)
    IN /\ fileIds' = IF flushed
                     THEN fileIds \cup bufIds \cup (IF own THEN {id} ELSE {})
                     ELSE fileIds
       /\ bufIds' = IF w2.err THEN bufIds
                    ELSE IF flushed THEN (IF w2.buf # <<>> THEN {id} ELSE {})
                    ELSE bufIds \cup {id}
       /\ UNCHANGED persisted

\* after WAL.Persist
PersistHist(w, ioOk, syncOk) ==
    LET flushOk == ~Flush(w, ioOk).err
    IN /\ fileIds' = IF flushOk THEN fileIds \cup bufIds ELSE fileIds
       /\ bufIds' = IF flushOk THEN {} ELSE bufIds
       /\ persisted' = IF PersistOk(w, ioOk, syncOk)
                       THEN persisted \cup fileIds \cup bufIds
                       ELSE persisted

(***************************************************************************)
(* Server.Start: startup.                                                  *)
(***************************************************************************)
\* The process ends (by a crash, os.Exit or a panic): what it held in
\* memory is gone, the WAL file and the Disk Store stay; the history of the
\* process is forgotten with it.
Halt(by) ==
    /\ phase' = "down"
    /\ downBy' = by
    /\ wal' = [file |-> wal.file, buf |-> <<>>, err |-> FALSE]
    /\ lsm' = EmptyLsm
    /\ main' = "wait_load"
    /\ loader' = "load"
    /\ dataLoadSignal' = 0
    /\ startPersistingCycleSignal' = 0
    /\ cyc' = "off"
    /\ sig' = "off"
    /\ pc' = [t \in Tasks |-> "idle"]
    /\ cur' = [t \in Tasks |-> NoCmd]
    /\ reply' = [t \in Tasks |-> NoReply]
    /\ bufIds' = {}
    /\ applied' = {}
    /\ memSrc' = EmptyMap
    /\ lastAck' = EmptyMap
    /\ obs' = [t \in Tasks |-> NoObs]
    /\ recovered' = FALSE
    /\ served' = FALSE
    /\ acked' = {}
    /\ persisted' = {}
    /\ fileIds' = {}
    /\ ingested' = {}
    /\ UNCHANGED <<disk, env, ncmds>>

\* The data loading goroutine: LoadFromDisk returns an error (panic: the
\* process dies) or the LSM index holds the disk contents and the replayed
\* WAL.
LoadData ==
    /\ phase = "up"
    /\ loader = "load"
    /\ \E ok \in IoOutcomes :
          IF ok
          THEN /\ lsm' = LoadFromDisk(lsm, disk, wal.file)
               /\ loader' = "signal"
               /\ recovered' = TRUE
               /\ applied' = {}
               /\ memSrc' = [k \in DOMAIN lsm'.mem |-> 0]
               /\ recView' = [k \in DOMAIN crashView |-> LsmGet(lsm', disk, k)]
               /\ UNCHANGED <<wal, disk, phase, main, dataLoadSignal,
                              startPersistingCycleSignal, cyc, sig, tasks,
                              ncmds, walHist, ingested, cliHist, served,
                              downBy, exitSync, acked, exitLost, crashView>>
          ELSE /\ Halt("panic")
               /\ UNCHANGED <<exitSync, exitLost, crashView, recView>>

\* a loader that sends its signals without waiting for LoadFromDisk
SendSignalsEarly ==
    /\ phase = "up"
    /\ loader \in {"load", "signal"}
    /\ dataLoadSignal = 0
    /\ startPersistingCycleSignal = 0
    /\ dataLoadSignal' = 1
    /\ startPersistingCycleSignal' = 1
    /\ loader' = IF loader = "signal" THEN "done" ELSE loader
    /\ UNCHANGED <<store, phase, main, cyc, sig,
                   tasks, ncmds, walHist, lsmHist, cliHist, lifeHist>>

\* dataLoadSignal <- true; startPersistingCycleSignal <- true
\* (both channels have room for one message, so neither send blocks)
SendSignals ==
    /\ phase = "up"
    /\ loader = "signal"
    /\ dataLoadSignal = 0
    /\ startPersistingCycleSignal = 0
    /\ dataLoadSignal' = 1
    /\ startPersistingCycleSignal' = 1
    /\ loader' = "done"
    /\ UNCHANGED <<store, phase, main, cyc, sig,
                   tasks, ncmds, walHist, lsmHist, cliHist, lifeHist>>

\* a main goroutine that does not wait for the data load
LoadNotAwaited == TRUE

\* <-dataLoadSignal
LoadWaited == dataLoadSignal > 0

\* The main goroutine: once the data load has signalled, it starts the
\* persisting cycle, the shutdown goroutine and the TCP and UDP loops.
MainStart ==
    /\ phase = "up"
    /\ main = "wait_load"
    /\ LoadWaited
    /\ dataLoadSignal' = IF dataLoadSignal > 0 THEN dataLoadSignal - 1 ELSE 0
    /\ main' = "serving"
    /\ cyc' = "wait"
    /\ sig' = "wait"
    /\ UNCHANGED <<store, phase, loader, startPersistingCycleSignal,
                   tasks, ncmds, walHist, lsmHist, cliHist, lifeHist>>


(***************************************************************************)
(* Command handling: handleConnection (TCP) and handleUDPPacket (UDP).     *)
(* Both run the same steps for a command; a step is one call into the WAL  *)
(* or the LSM index, and the handlers of different clients interleave      *)
(* between steps.                                                          *)
(***************************************************************************)
CanServe(t) ==
    /\ phase = "up"
    /\ main = "serving"
    /\ t \in active
    /\ pc[t] = "idle"
    /\ ncmds < MaxCmds

Say(t, kind, v) == reply' = [reply EXCEPT ![t] = [kind |-> kind, val |-> v]]

\* a handler that drops the error of wal.Write
WriteErrorDropped(w2) == FALSE

\* if err := wal.Write(...); err != nil
WriteFailed(w2) == w2.err

\* a mutation of key k has entered the WAL: a GET of k that is under way
\* no longer has a quiet key
Disturb(c, t, k) ==
    [u \in Tasks |->
        IF u = t THEN c
        ELSE IF pc[u] = "get_lsm" /\ cur[u].key = k
             THEN [cur[u] EXCEPT !.quiet = FALSE]
             ELSE cur[u]]

\* PUT / DEL, first step: the record is appended to the WAL; on an error
\* the client is told and the command ends.
MutWrite(t, op, k, v, ioOk) ==
    LET id == ncmds + 1
        data == IF op = "put" THEN << <<"+">>, k, v >> ELSE << <<"-">>, k >>
        w2 == WalWrite(wal, data, ioOk)
    IN /\ CanServe(t)
       /\ wal' = w2
       /\ WriteHist(wal, w2, id)
       /\ ncmds' = id
       /\ served' = TRUE
       /\ obs' = [obs EXCEPT ![t] = [NoObs EXCEPT !.errId = IF w2.err THEN id ELSE 0]]
       /\ IF WriteFailed(w2)
          THEN /\ Say(t, "ERR", <<>>)
               /\ UNCHANGED <<pc, cur>>
          ELSE /\ pc' = [pc EXCEPT ![t] = IF op = "put" THEN "put_lsm" ELSE "del_lsm"]
               /\ cur' = Disturb([NoCmd EXCEPT !.op = op, !.key = k, !.val = v,
                                               !.id = id, !.walOk = ~w2.err],
                               t, k)
               /\ Say(t, "none", <<>>)
       /\ crashView' = EmptyMap
       /\ recView' = EmptyMap
       /\ UNCHANGED <<lsm, disk, ctl, active, udp, lck, walLog, lsmHist, lastAck,
                      recovered, downBy, exitSync, acked, exitLost>>

\* a handler that passes the value where the key belongs
PutApplySwapped(l, c) == LsmPut(l, c.val, c.key)

\* ltree.Put(cmd[1], cmd[2])
PutApply(l, c) == LsmPut(l, c.key, c.val)

\* a handler that acknowledges DEL without calling the LSM index
DelApplyMissing(l, c) == l

\* ltree.Del(cmd[1])
DelApply(l, c) == LsmDel(l, c.key)

\* PUT / DEL, second step: the LSM index is updated and OK is sent (the
\* reply goes to the handler's own client; no other goroutine reads it).
MutApply(t) ==
    /\ phase = "up"
    /\ pc[t] \in Mutating
    /\ lsm' = IF pc[t] = "put_lsm" THEN PutApply(lsm, cur[t])
              ELSE DelApply(lsm, cur[t])
    /\ applied' = applied \cup {cur[t].id}
    /\ memSrc' = MapPut(memSrc, cur[t].key, cur[t].id)
    /\ Say(t, "OK", <<>>)
    /\ pc' = [pc EXCEPT ![t] = "idle"]
    /\ cur' = [cur EXCEPT ![t] = NoCmd]
    /\ acked' = acked \cup {cur[t].id}
    /\ lastAck' = MapPut(lastAck, cur[t].key,
                         [res |-> IF pc[t] = "put_lsm" THEN Found(cur[t].val)
                                  ELSE NotFound,
                          by |-> t])
    /\ UNCHANGED <<wal, disk, ctl, env, ncmds, walHist, ingested, obs,
                   recovered, served, downBy, exitSync, exitLost, crashView,
                   recView>>

\* a handler that drops the error of wal.Persist
PersistErrorDropped(w, ioOk, syncOk) == FALSE

\* if err := wal.Persist(); err != nil
GetPersistFailed(w, ioOk, syncOk) == ~PersistOk(w, ioOk, syncOk)

\* GET, first step: the WAL is flushed and synced; on an error the client
\* is told and the command ends.
GetPersist(t, k, ioOk, syncOk) ==
    /\ CanServe(t)
    /\ wal' = WalPersist(wal, ioOk, syncOk)
    /\ PersistHist(wal, ioOk, syncOk)
    /\ ncmds' = ncmds + 1
    /\ served' = TRUE
    /\ IF GetPersistFailed(wal, ioOk, syncOk)
       THEN /\ Say(t, "ERR", <<>>)
            /\ UNCHANGED <<pc, cur>>
       ELSE /\ pc' = [pc EXCEPT ![t] = "get_lsm"]
            /\ cur' = [cur EXCEPT ![t] =
                 [NoCmd EXCEPT
                    !.op = "get", !.key = k, !.id = ncmds + 1,
                    !.walOk = PersistOk(wal, ioOk, syncOk),
                    !.hasExp = k \in DOMAIN lastAck,
                    !.exp = IF k \in DOMAIN lastAck THEN lastAck[k].res ELSE NotFound,
                    !.by = IF k \in DOMAIN lastAck THEN lastAck[k].by ELSE "none",
                    !.quiet = ~InFlight(k),
                    !.mustSee = {cur[u].id : u \in {x \in Tasks :
                                     /\ pc[x] \in Mutating
                                     /\ cur[x].key = k
                                     /\ cur[x].id \in persisted}}]]
            /\ Say(t, "none", <<>>)
    /\ obs' = [obs EXCEPT ![t] =
                 [NoObs EXCEPT !.errId = IF PersistOk(wal, ioOk, syncOk)
                                         THEN 0 ELSE ncmds + 1]]
    /\ crashView' = EmptyMap
    /\ recView' = EmptyMap
    /\ UNCHANGED <<lsm, disk, ctl, active, udp, lck, walLog, lsmHist, lastAck,
                   recovered, downBy, exitSync, acked, exitLost>>

\* val, exist := ltree.Get(cmd[1])
GetLookup(l, d, c) == LsmGet(l, d, c.key)

\* GET, second step: the LSM index is read and the result is sent.
GetRead(t) ==
    LET k == cur[t].key
        r == GetLookup(lsm, disk, cur[t])
        fromMem == k \in lsm.bloom /\ k \in DOMAIN lsm.mem
        src == IF fromMem /\ k \in DOMAIN memSrc THEN memSrc[k] ELSE 0
    IN /\ phase = "up"
       /\ pc[t] = "get_lsm"
       /\ IF r.found THEN Say(t, "VAL", r.val) ELSE Say(t, "NOTFOUND", <<>>)
       /\ pc' = [pc EXCEPT ![t] = "idle"]
       /\ cur' = [cur EXCEPT ![t] = NoCmd]
       /\ obs' = [obs EXCEPT ![t] =
            [key |-> k, res |-> r, seen |-> TRUE,
             exp |-> cur[t].exp, hasExp |-> cur[t].hasExp, by |-> cur[t].by,
             quiet |-> cur[t].quiet,
             srcOk |-> (src = 0 \/ src \in persisted \cup ingested),
             missed |-> \E u \in Tasks : /\ pc[u] \in Mutating
                                         /\ cur[u].id \in cur[t].mustSee,
             errId |-> 0, walOk |-> cur[t].walOk]]
       /\ UNCHANGED <<store, ctl, env, ncmds, walHist, lsmHist, lastAck,
                      lifeHist>>

\* handleConnection, for a well-formed command
TcpPut(c) ==
    /\ \E k \in Keys, v \in Values, ioOk \in IoOutcomes : MutWrite(c, "put", k, v, ioOk)
    /\ UNCHANGED line
TcpDel(c) ==
    /\ \E k \in Keys, ioOk \in IoOutcomes : MutWrite(c, "del", k, <<>>, ioOk)
    /\ UNCHANGED line
TcpGet(c) ==
    /\ \E k \in Keys, ioOk \in IoOutcomes, syncOk \in IoOutcomes : GetPersist(c, k, ioOk, syncOk)
    /\ UNCHANGED line
TcpApply(c) == MutApply(c)
TcpRead(c) == GetRead(c)

\* handleUDPPacket, for a well-formed command
UdpPut(u) ==
    /\ \E k \in Keys, v \in Values, ioOk \in IoOutcomes : MutWrite(u, "put", k, v, ioOk)
    /\ UNCHANGED line
UdpDel(u) ==
    /\ \E k \in Keys, ioOk \in IoOutcomes : MutWrite(u, "del", k, <<>>, ioOk)
    /\ UNCHANGED line
UdpGet(u) ==
    /\ \E k \in Keys, ioOk \in IoOutcomes, syncOk \in IoOutcomes : GetPersist(u, k, ioOk, syncOk)
    /\ UNCHANGED line
UdpApply(u) == MutApply(u)
UdpRead(u) == GetRead(u)

(***************************************************************************)
(* Command lines: the dispatch of handleConnection and handleUDPPacket on  *)
(* the tokens of a line.                                                   *)
(***************************************************************************)
\* handleConnection: len(cmd) == 0, then the switch on cmd[0].  PUT and
\* DEL check the number of tokens; GET does not.
TcpDispatch(cmd) ==
    IF Len(cmd) = 0 THEN "invalid"
    ELSE IF cmd[1] = PUT THEN (IF Len(cmd) # 3 THEN "invalid" ELSE "put")
    ELSE IF cmd[1] = GET THEN "get"
    ELSE IF cmd[1] = DEL THEN (IF Len(cmd) # 2 THEN "invalid" ELSE "del")
    ELSE "invalid"

\* handleUDPPacket: the same switch; GET checks the number of tokens too.
UdpDispatch(cmd) ==
    IF Len(cmd) = 0 THEN "invalid"
    ELSE IF cmd[1] = GET THEN (IF Len(cmd) # 2 THEN "invalid" ELSE "get")
    ELSE IF cmd[1] = PUT THEN (IF Len(cmd) # 3 THEN "invalid" ELSE "put")
    ELSE IF cmd[1] = DEL THEN (IF Len(cmd) # 2 THEN "invalid" ELSE "del")
    ELSE "invalid"

\* "Invalid command" is sent; nothing else is touched.
Invalid(t) ==
    /\ CanServe(t)
    /\ ncmds' = ncmds + 1
    /\ served' = TRUE
    /\ Say(t, "INVALID", <<>>)
    /\ obs' = [obs EXCEPT ![t] = NoObs]
    /\ crashView' = EmptyMap
    /\ recView' = EmptyMap
    /\ UNCHANGED <<store, ctl, pc, cur, active, udp, lck, walLog, walHist, lsmHist,
                   lastAck, recovered, downBy, exitSync, acked, exitLost>>

\* the handler's steps for a line that dispatches to d; the key of a GET
\* is cmd[1] of the code, which a line of one token does not have
Handle(t, d, cmd, ioOk, syncOk) ==
    /\ line' = [line EXCEPT ![t] = [got |-> TRUE, cmd |-> cmd]]
    /\ CASE d = "put" -> MutWrite(t, "put", cmd[2], cmd[3], ioOk)
         [] d = "del" -> MutWrite(t, "del", cmd[2], <<>>, ioOk)
         [] d = "get" -> GetPersist(t, IF Len(cmd) >= 2 THEN cmd[2] ELSE <<>>,
                                    ioOk, syncOk)
         [] OTHER -> Invalid(t)

TcpLine(c) ==
    \E cmd \in Lines, ioOk \in IoOutcomes, syncOk \in IoOutcomes :
        Handle(c, TcpDispatch(cmd), cmd, ioOk, syncOk)

UdpLine(u) ==
    \E cmd \in Lines, ioOk \in IoOutcomes, syncOk \in IoOutcomes :
        Handle(u, UdpDispatch(cmd), cmd, ioOk, syncOk)

\* ltree.Get(cmd[1]) of a GET that has its key
LineRead(t) ==
    /\ cur[t].key # <<>>
    /\ GetRead(t)

\* ltree.Get(cmd[1]) of a TCP GET line of one token: cmd[1] is out of
\* range, the goroutine panics and the process dies
TcpReadNoKey(c) ==
    /\ phase = "up"
    /\ pc[c] = "get_lsm"
    /\ cur[c].key = <<>>
    /\ Halt("index")
    /\ UNCHANGED <<exitSync, exitLost, crashView, recView>>

(***************************************************************************)
(* The WAL on its own: what a handler passes to wal.Write (cmd[1] and      *)
(* cmd[2] as they are, so a token may hold a pipe) and a Persist.          *)
(***************************************************************************)
PipedKey == <<"a", Pipe>>
PipedValue == <<Pipe, "x">>

WalRecords ==
    {[op |-> "put", key |-> k, val |-> v] :
        k \in Keys \cup {PipedKey}, v \in Values \cup {PipedValue}}
    \cup {[op |-> "del", key |-> k, val |-> <<>>] : k \in Keys \cup {PipedKey}}

\* wal.Write([]byte("+"), []byte(cmd[1]), []byte(cmd[2])) or
\* wal.Write([]byte("-"), []byte(cmd[1])); the record is accepted (and the
\* handler goes on to OK) when Write returns without error
WalAppend ==
    \E r \in WalRecords, ioOk \in IoOutcomes :
        LET data == IF r.op = "put" THEN << <<"+">>, r.key, r.val >>
                    ELSE << <<"-">>, r.key >>
            w2 == WalWrite(wal, data, ioOk)
        IN /\ Len(walLog.recs) < MaxCmds
           /\ wal' = w2
           /\ walLog' = [walLog EXCEPT !.recs = IF w2.err THEN @ ELSE Append(@, r),
                                        !.synced = FALSE]
           /\ UNCHANGED <<lsm, disk, ctl, pc, cur, reply, active, udp, line, lck,
                          ncmds, walHist, lsmHist, cliHist, lifeHist>>

\* wal.Persist()
WalSync ==
    \E ioOk \in IoOutcomes, syncOk \in IoOutcomes :
        /\ wal' = WalPersist(wal, ioOk, syncOk)
        /\ walLog' = [walLog EXCEPT !.synced = PersistOk(wal, ioOk, syncOk)]
        /\ UNCHANGED <<lsm, disk, ctl, pc, cur, reply, active, udp, line, lck,
                       ncmds, walHist, lsmHist, cliHist, lifeHist>>

(***************************************************************************)
(* The UDP loop and its handlers.  The loop has one buffer; each datagram  *)
(* is received into it and a goroutine is started on the slice buf[:n],    *)
(* which shares the buffer's memory.  The receive and the handler's        *)
(* string(packet) both copy bytes and are not ordered with each other, so  *)
(* each is a sequence of one-byte steps.                                   *)
(***************************************************************************)
Datagrams ==
    { GET \o <<" ", "a">>,
      DEL \o <<" ", "a">>,
      PUT \o <<" ", "a", " ", "x">> }

\* strings.Fields: the fields between runs of white space
Fields(s) == SelectSeq(Split(s, " "), LAMBDA f : f # <<>>)

UdpRest == <<store, ctl, pc, cur, reply, active, line, lck, walLog, ncmds,
             walHist, lsmHist, cliHist, lifeHist>>

\* udpServer.ReadFrom(buf) starts to receive a datagram
UdpArrive ==
    \E d \in Datagrams :
        /\ udp.rx = <<>>
        /\ Len(d) <= UDPBufferSize
        /\ udp' = [udp EXCEPT !.rx = d, !.pos = 0]
        /\ UNCHANGED UdpRest

\* ReadFrom copies the next byte of the datagram into buf
UdpCopy ==
    /\ udp.rx # <<>>
    /\ udp.pos < Len(udp.rx)
    /\ udp' = [udp EXCEPT !.buf[udp.pos + 1] = udp.rx[udp.pos + 1],
                          !.pos = udp.pos + 1]
    /\ UNCHANGED UdpRest

\* ReadFrom returns n; go handleUDPPacket(udpServer, buf[:n], addr, ...)
UdpSpawn ==
    \E x \in Handlers :
        /\ udp.rx # <<>>
        /\ udp.pos = Len(udp.rx)
        /\ udp.h[x].st = "free"
        /\ udp' = [udp EXCEPT !.rx = <<>>, !.pos = 0,
                              !.h[x] = [st |-> "new", n |-> Len(udp.rx),
                                        own |-> udp.rx, req |-> <<>>]]
        /\ UNCHANGED UdpRest

\* request := string(packet): the next byte of buf[:n] is copied; after
\* the last one the request is parsed
HandlerCopy ==
    \E x \in Handlers :
        LET hx == udp.h[x]
            req == Append(hx.req, udp.buf[Len(hx.req) + 1])
        IN /\ hx.st = "new"
           /\ udp' = [udp EXCEPT !.h[x].req = req,
                                 !.h[x].st = IF Len(req) = hx.n THEN "parsed"
                                             ELSE "new"]
           /\ UNCHANGED UdpRest

\* the handler has answered its command and ends
HandlerDone ==
    \E x \in Handlers :
        /\ udp.h[x].st = "parsed"
        /\ udp' = [udp EXCEPT !.h[x] = NoHandler]
        /\ UNCHANGED UdpRest

(***************************************************************************)
(* The WAL under several callers, a step at a time: every method takes     *)
(* w.lock on entry and releases it (defer) when it returns.                *)
(***************************************************************************)
InWal == {"w_check", "w_args", "w_nl", "p_flush", "p_sync", "t_trunc", "r_read"}

\* the frame Write gives a record: each argument followed by the
\* delimiter, then the newline
Frame(r) ==
    IF r.op = "put" THEN <<"+", Pipe>> \o r.key \o <<Pipe>> \o r.val \o <<Pipe, NL>>
    ELSE <<"-", Pipe>> \o r.key \o <<Pipe, NL>>

RECURSIVE Frames(_)
Frames(recs) ==
    IF recs = <<>> THEN <<>> ELSE Frame(Head(recs)) \o Frames(Tail(recs))

\* the bytes of p that a writer.Write(p) taking w to w1 has put into the
\* buffer or the file (all of p unless the write met an error)
Taken(w, w1, p) ==
    SubSeq(p, 1, Len(w1.file) + Len(w1.buf) - Len(w.file) - Len(w.buf))

\* a lock that lets every caller in
WalLockIgnored == TRUE

\* w.lock.Lock() returns: nobody holds the lock
WalLockFree == mu = "none"

\* defer w.lock.Unlock() and the return to the caller
Unlock(t) ==
    /\ mu' = "none"
    /\ pc' = [pc EXCEPT ![t] = "idle"]
    /\ wdata' = [wdata EXCEPT ![t] = <<>>]

LockRest == <<lsm, disk, ctl, reply, active, udp, line, walHist, lsmHist, cliHist,
              lifeHist>>

\* a task calls Write, Persist, ReadEntries / InitDB or Truncate and
\* gets the lock
LockWal(t) ==
    /\ pc[t] = "idle"
    /\ ncmds < MaxCalls
    /\ WalLockFree
    /\ mu' = t
    /\ ncmds' = ncmds + 1
    /\ \/ \E r \in {x \in WalRecords : x.key \in Keys /\ x.val \in Values \cup {<<>>}} :
             /\ pc' = [pc EXCEPT ![t] = "w_check"]
             /\ cur' = [cur EXCEPT ![t] = [NoCmd EXCEPT !.op = r.op, !.key = r.key,
                                                        !.val = r.val]]
             /\ wdata' = [wdata EXCEPT ![t] =
                            IF r.op = "put" THEN << <<"+">>, r.key, r.val >>
                            ELSE << <<"-">>, r.key >>]
       \/ /\ \E l \in {"p_flush", "t_trunc", "r_read"} : pc' = [pc EXCEPT ![t] = l]
          /\ cur' = [cur EXCEPT ![t] = NoCmd]
          /\ UNCHANGED wdata
    /\ UNCHANGED <<wal, walLog, LockRest>>

\* Write: if len(data) > w.writer.Available() { flushBuffer }
WriteCheck(t) ==
    /\ pc[t] = "w_check"
    /\ \E ioOk \in IoOutcomes :
          LET flush == Len(wdata[t]) > Available(wal)
              w0 == IF flush THEN Flush(wal, ioOk) ELSE wal
          IN /\ wal' = w0
             /\ IF flush /\ w0.err
                THEN Unlock(t)
                ELSE /\ pc' = [pc EXCEPT ![t] = "w_args"]
                     /\ UNCHANGED lck
    /\ UNCHANGED <<cur, walLog, ncmds, LockRest>>

\* Write: one turn of the loop, w.writer.Write(append(d, delimiter...))
WriteArg(t) ==
    /\ pc[t] = "w_args"
    /\ \E ioOk \in IoOutcomes :
          LET p == Head(wdata[t]) \o <<Pipe>>
              w1 == BufWrite(wal, p, ioOk)
          IN /\ wal' = w1
             /\ walLog' = [walLog EXCEPT !.bytes = @ \o Taken(wal, w1, p),
                                         !.synced = FALSE]
             /\ IF w1.err
                THEN Unlock(t)
                ELSE /\ wdata' = [wdata EXCEPT ![t] = Tail(@)]
                     /\ pc' = [pc EXCEPT ![t] = IF Len(wdata[t]) = 1 THEN "w_nl"
                                                ELSE "w_args"]
                     /\ UNCHANGED mu
    /\ UNCHANGED <<cur, ncmds, LockRest>>

\* Write: w.writer.WriteString("\n") and return; nil when it succeeded
WriteNl(t) ==
    /\ pc[t] = "w_nl"
    /\ \E ioOk \in IoOutcomes :
          LET w2 == BufWrite(wal, <<NL>>, ioOk)
          IN /\ wal' = w2
             /\ walLog' = [walLog EXCEPT
                              !.bytes = @ \o Taken(wal, w2, <<NL>>),
                              !.recs = IF w2.err THEN @
                                       ELSE Append(@, [op |-> cur[t].op,
                                                       key |-> cur[t].key,
                                                       val |-> cur[t].val]),
                              !.synced = FALSE]
    /\ Unlock(t)
    /\ UNCHANGED <<cur, ncmds, LockRest>>

\* Persist: w.writer.Flush()
PersistFlush(t) ==
    /\ pc[t] = "p_flush"
    /\ \E ioOk \in IoOutcomes :
          LET w1 == Flush(wal, ioOk)
          IN /\ wal' = w1
             /\ IF w1.err
                THEN Unlock(t)
                ELSE /\ pc' = [pc EXCEPT ![t] = "p_sync"]
                     /\ UNCHANGED lck
    /\ UNCHANGED <<cur, walLog, ncmds, LockRest>>

\* Persist: w.file.Sync(), then w.writer.Reset(w.file) when it succeeded
PersistSync(t) ==
    /\ pc[t] = "p_sync"
    /\ \E syncOk \in IoOutcomes :
          /\ wal' = IF syncOk THEN [wal EXCEPT !.buf = <<>>, !.err = FALSE] ELSE wal
          /\ walLog' = [walLog EXCEPT !.synced = syncOk]
    /\ Unlock(t)
    /\ UNCHANGED <<cur, ncmds, LockRest>>

\* Truncate: w.file.Truncate(0); w.file.Seek(0, 0)
TruncateFile(t) ==
    /\ pc[t] = "t_trunc"
    /\ wal' = WalTruncate(wal)
    /\ walLog' = [walLog EXCEPT !.cut = Len(walLog.recs)]
    /\ Unlock(t)
    /\ UNCHANGED <<cur, ncmds, LockRest>>

\* ReadEntries / InitDB: the file is read whole
ReadFile(t) ==
    /\ pc[t] = "r_read"
    /\ Unlock(t)
    /\ UNCHANGED <<wal, cur, walLog, ncmds, LockRest>>

(***************************************************************************)
(* The engine's index and Disk Store on their own: put, del, get, flush    *)
(* and load called in any order, over partition files and a WAL file of    *)
(* any content.                                                            *)
(***************************************************************************)
IdxKeys == Keys \cup {<<"b">>}

\* the partition files at construction
IdxDisks ==
    UNION {[ks -> Values] : ks \in SUBSET IdxKeys}

\* the WAL file at construction
IdxFiles ==
    { <<>>,
      Frame([op |-> "put", key |-> <<"a">>, val |-> <<"y">>]),
      Frame([op |-> "del", key |-> <<"a">>, val |-> <<>>]),
      Frame([op |-> "put", key |-> <<"b">>, val |-> <<"x">>])
          \o Frame([op |-> "del", key |-> <<"b">>, val |-> <<>>]) }

IdxRest == <<wal, ctl, tasks, ncmds, walHist, lsmHist, lastAck, lifeHist>>

\* LsmTree.Put(key, value)
IdxPut ==
    \E k \in IdxKeys, v \in Values :
        /\ lsm' = LsmPut(lsm, k, v)
        /\ UNCHANGED <<disk, obs, IdxRest>>

\* LsmTree.Del(key)
IdxDel ==
    \E k \in IdxKeys :
        /\ lsm' = LsmDel(lsm, k)
        /\ UNCHANGED <<disk, obs, IdxRest>>

\* LsmTree.Get(key); recorded with it: whether the key was on disk only
\* (in the Disk Store, in neither the memtable nor the filter) and what
\* the Disk Store held for it
IdxGet ==
    \E t \in active, k \in IdxKeys :
        /\ obs' = [obs EXCEPT ![t] =
                     [NoObs EXCEPT !.key = k,
                                   !.res = LsmGet(lsm, disk, k),
                                   !.seen = TRUE,
                                   !.exp = DiskGet(disk, k),
                                   !.hasExp = /\ k \in DOMAIN disk
                                              /\ k \notin DOMAIN lsm.mem
                                              /\ k \notin lsm.bloom]]
        /\ UNCHANGED <<lsm, disk, IdxRest>>

\* a flush: the memtable is ingested by the Disk Store and replaced by an
\* empty one
IdxFlush ==
    /\ disk' = Ingest(disk, lsm.mem)
    /\ lsm' = [lsm EXCEPT !.mem = EmptyMap]
    /\ UNCHANGED <<obs, IdxRest>>

\* DBEngine.LoadFromDisk: disk load, then WAL replay
IdxLoad ==
    /\ lsm' = LoadFromDisk(lsm, disk, wal.file)
    /\ UNCHANGED <<disk, obs, IdxRest>>

(***************************************************************************)
(* DiskStore.PersistToDisk: the background persisting cycle.               *)
(***************************************************************************)
\* <-startSignal
CycleStart ==
    /\ phase = "up"
    /\ cyc = "wait"
    /\ startPersistingCycleSignal > 0
    /\ startPersistingCycleSignal' = startPersistingCycleSignal - 1
    /\ cyc' = "tick"
    /\ UNCHANGED <<store, phase, main, loader, dataLoadSignal, sig, tasks,
                   ncmds, walHist, lsmHist, cliHist, lifeHist>>

\* on the tick: the memtable is handed to the Disk Store and replaced by
\* an empty one once its contents are on disk
CycleIngest ==
    /\ phase = "up"
    /\ cyc = "tick"
    /\ disk' = Ingest(disk, lsm.mem)
    /\ lsm' = [lsm EXCEPT !.mem = EmptyMap]
    /\ ingested' = ingested \cup applied
    /\ memSrc' = EmptyMap
    /\ cyc' = "persist"
    /\ UNCHANGED <<wal, phase, main, loader, dataLoadSignal,
                   startPersistingCycleSignal, sig, tasks, ncmds, walHist,
                   applied, cliHist, lifeHist>>

\* after ingestion: wal.Persist()
CyclePersist ==
    /\ phase = "up"
    /\ cyc = "persist"
    /\ \E ioOk \in IoOutcomes, syncOk \in IoOutcomes :
          /\ wal' = WalPersist(wal, ioOk, syncOk)
          /\ PersistHist(wal, ioOk, syncOk)
          /\ IF PersistOk(wal, ioOk, syncOk)
             THEN cyc' = "truncate"
             ELSE cyc' = "tick"
    /\ UNCHANGED <<lsm, disk, phase, main, loader, dataLoadSignal,
                   startPersistingCycleSignal, sig, tasks, ncmds,
                   lsmHist, cliHist, lifeHist>>

\* then: wal.Truncate()
CycleTruncate ==
    /\ phase = "up"
    /\ cyc = "truncate"
    /\ wal' = WalTruncate(wal)
    /\ fileIds' = {}
    /\ cyc' = "tick"
    /\ UNCHANGED <<lsm, disk, phase, main, loader, dataLoadSignal,
                   startPersistingCycleSignal, sig, tasks, ncmds,
                   persisted, bufIds, lsmHist, cliHist, lifeHist>>

(***************************************************************************)
(* Server.Start: the shutdown goroutine.                                   *)
(***************************************************************************)
\* <-sigCh: SIGINT or SIGTERM arrives
Signal ==
    /\ phase = "up"
    /\ sig = "wait"
    /\ sig' = "persist"
    /\ UNCHANGED <<store, phase, main, loader, dataLoadSignal,
                   startPersistingCycleSignal, cyc, tasks, ncmds, walHist,
                   lsmHist, cliHist, lifeHist>>

\* err := s.DBEngine.Wal.Persist(); an error is printed and dropped
ShutdownPersist ==
    /\ phase = "up"
    /\ sig = "persist"
    /\ \E ioOk \in IoOutcomes, syncOk \in IoOutcomes :
          /\ wal' = WalPersist(wal, ioOk, syncOk)
          /\ PersistHist(wal, ioOk, syncOk)
          /\ exitSync' = PersistOk(wal, ioOk, syncOk)
    /\ sig' = "exit"
    /\ UNCHANGED <<lsm, disk, phase, main, loader, dataLoadSignal,
                   startPersistingCycleSignal, cyc, tasks, ncmds, lsmHist, cliHist, recovered, served, downBy, acked, exitLost,
                   crashView, recView>>

\* os.Exit(0)
Exit ==
    /\ phase = "up"
    /\ sig = "exit"
    /\ Halt("exit")
    /\ exitLost' = acked \ ((fileIds \ bufIds) \cup ingested)
    /\ crashView' = EmptyMap
    /\ recView' = EmptyMap
    /\ UNCHANGED exitSync

(***************************************************************************)
(* The environment: the process is killed, and the server is started       *)
(* again (main -> NewServer -> Server.Start) over the files left behind.   *)
(***************************************************************************)
Crash ==
    /\ phase = "up"
    /\ Halt("crash")
    /\ crashView' = [k \in {x \in DOMAIN lastAck : ~InFlight(x)} |->
                        LsmGet(lsm, disk, k)]
    /\ recView' = EmptyMap
    /\ UNCHANGED <<exitSync, exitLost>>

Restart ==
    /\ phase = "down"
    /\ phase' = "up"
    /\ downBy' = "none"
    /\ exitSync' = FALSE
    /\ exitLost' = {}
    /\ UNCHANGED <<store, main, loader, dataLoadSignal,
                   startPersistingCycleSignal, cyc, sig, tasks, ncmds,
                   walHist, lsmHist, cliHist, recovered, served, acked,
                   crashView, recView>>

(***************************************************************************)
(* Specifications.                                                         *)
(***************************************************************************)
Startup ==
    \/ LoadData
    \/ SendSignals
    \/ MainStart

TcpStep ==
    \/ \E c \in Conns : TcpPut(c)
    \/ \E c \in Conns : TcpDel(c)
    \/ \E c \in Conns : TcpGet(c)
    \/ \E c \in Conns : TcpApply(c)
    \/ \E c \in Conns : TcpRead(c)

UdpStep ==
    \/ \E u \in Udps : UdpPut(u)
    \/ \E u \in Udps : UdpDel(u)
    \/ \E u \in Udps : UdpGet(u)
    \/ \E u \in Udps : UdpApply(u)
    \/ \E u \in Udps : UdpRead(u)

CycleStep ==
    \/ CycleStart
    \/ CycleIngest
    \/ CyclePersist
    \/ CycleTruncate

Shutdown ==
    \/ Signal
    \/ ShutdownPersist
    \/ Exit

\* The running server: two TCP connections served concurrently, with the
\* persisting cycle in the background.
Init == InitWith(Conns)

Next == Startup \/ TcpStep \/ CycleStep

Spec == Init /\ [][Next]_vars

\* The life of the server: one client (a TCP connection or a UDP client),
\* the persisting cycle, shutdown on a signal, crashes and restarts.
InitLife == \E t \in {"c1", "u1"} : InitWith({t})

NextLife == Startup \/ TcpStep \/ UdpStep \/ CycleStep \/ Shutdown \/ Crash \/ Restart

SpecLife == InitLife /\ [][NextLife]_vars

\* The protocol: a TCP connection and a UDP client send command lines of
\* any shape.
InitProto == InitWith({"c1", "u1"})

NextProto ==
    \/ Startup
    \/ \E c \in Conns : TcpLine(c)
    \/ \E u \in Udps : UdpLine(u)
    \/ \E t \in Tasks : MutApply(t)
    \/ \E t \in Tasks : LineRead(t)
    \/ \E c \in Conns : TcpReadNoKey(c)

SpecProto == InitProto /\ [][NextProto]_vars

\* Startup over a WAL file of any content (and no partition files).
InitReplay == \E file \in ReplayFiles : InitOver({}, file, EmptyMap)

NextReplay == Startup

SpecReplay == InitReplay /\ [][NextReplay]_vars

\* The index and the Disk Store called in any order by one caller.
InitIndex ==
    \E file \in IdxFiles, d \in IdxDisks : InitOver({"c1"}, file, d)

NextIndex == IdxPut \/ IdxDel \/ IdxGet \/ IdxFlush \/ IdxLoad

SpecIndex == InitIndex /\ [][NextIndex]_vars

\* The UDP loop receiving datagrams and starting a handler for each.
InitUdp == InitWith({})

NextUdp == UdpArrive \/ UdpCopy \/ UdpSpawn \/ HandlerCopy \/ HandlerDone

SpecUdp == InitUdp /\ [][NextUdp]_vars

\* The WAL shared by three tasks that call its methods at any time.
InitLock == InitWith({})

NextLock ==
    \E t \in Tasks :
        \/ LockWal(t)
        \/ WriteCheck(t)
        \/ WriteArg(t)
        \/ WriteNl(t)
        \/ PersistFlush(t)
        \/ PersistSync(t)
        \/ TruncateFile(t)
        \/ ReadFile(t)

SpecLock == InitLock /\ [][NextLock]_vars

\* The WAL on its own: appends and persists on a WAL just opened.
InitWal == InitWith({})

NextWal == WalAppend \/ WalSync

SpecWal == InitWal /\ [][NextWal]_vars

(***************************************************************************)
(* Properties.                                                             *)
(***************************************************************************)

\* C1: for every PUT or DEL acknowledged with OK, after a crash and the
\* recovery that follows (disk load plus WAL replay), GET of the mutation's
\* key returns what it returned on the engine before the crash.
C1_AckedSurvivesCrash ==
    \A k \in DOMAIN recView : recView[k] = crashView[k]

\* C2: on a single TCP connection, whatever the persisting cycle does in
\* between, a GET of a key returns the value of the most recent PUT of the
\* key acknowledged before it, or not found if the most recent acknowledged
\* mutation was a DEL.
C2_ReadYourWrites ==
    \A c \in Conns :
        (active = {c} /\ obs[c].seen /\ obs[c].hasExp)
            => obs[c].res = obs[c].exp

\* C2 happens: a GET answered after a mutation that the persisting cycle
\* has ingested and a DEL of the key that it has not.
C2_Witness ==
    \E c \in Conns :
        /\ active = {c}
        /\ obs[c].seen
        /\ obs[c].hasExp
        /\ ~obs[c].exp.found
        /\ ingested # {}
        /\ applied \ ingested # {}

\* C3: whenever the WAL is truncated, every mutation that has a record in
\* the WAL file and has been applied to the LSM index has been ingested by
\* the Disk Store.
C3_TruncateOnlyIngested ==
    cyc = "truncate" => (fileIds \cap applied) \subseteq ingested

\* C4: a GET that returns the memtable entry written by a mutation reads
\* it when the mutation's WAL record has been flushed and synced by a
\* Persist (or the mutation is in the Disk Store).
C4_ReadsOnlyPersisted ==
    \A t \in Tasks : obs[t].srcOk

\* C5: connection A has received OK for PUT k v, connection B issues
\* GET k after that, and no other mutation of k comes in between or
\* during the GET: the GET returns v.
C5_OtherConnectionReads ==
    \A t \in Tasks :
        (/\ obs[t].seen
         /\ obs[t].hasExp
         /\ obs[t].exp.found
         /\ obs[t].by # t
         /\ obs[t].quiet)
            => obs[t].res = obs[t].exp

\* C5 happens: a GET answered on one connection after a PUT of its key
\* acknowledged on the other.
C5_Witness ==
    \E t \in Tasks :
        /\ obs[t].seen
        /\ obs[t].hasExp
        /\ obs[t].exp.found
        /\ obs[t].by # t
        /\ obs[t].quiet
        /\ obs[t].res.found

\* C6: a GET of K observes every mutation of K whose WAL record a Persist
\* had synced before the GET's own Persist: none of them is still waiting
\* to be applied to the LSM index when the GET reads it.
C6_SeesPersisted ==
    \A t \in Tasks : ~obs[t].missed

\* C7: when the process exits on a shutdown signal, the shutdown handler's
\* WAL sync has succeeded and every PUT or DEL acknowledged with OK is in
\* the WAL file or in the Disk Store.
C7_GracefulExit ==
    (phase = "down" /\ downBy = "exit") => (exitSync /\ exitLost = {})

\* C8: once startup recovery has completed (and before the first command),
\* GET of every key returns the effect of the key's last record in the WAL
\* file, and the Disk Store's value for a key with no record in the file.
C8_RecoveryIsReplayOverDisk ==
    (phase = "up" /\ recovered /\ ~served) =>
        LET es == ReadEntries(wal.file)
            keys == Keys \cup DOMAIN disk \cup {es[i].key : i \in 1..Len(es)}
        IN \A k \in keys :
              LET at == {i \in 1..Len(es) : es[i].key = k}
                  last == CHOOSE i \in at : \A j \in at : j <= i
              IN LsmGet(lsm, disk, k) =
                    IF at = {} THEN DiskGet(disk, k)
                    ELSE IF es[last].op = "put" THEN Found(es[last].val)
                    ELSE NotFound

\* C8 happens: a recovery over a WAL file whose records override the value
\* the Disk Store holds for a key.
C8_Witness ==
    /\ phase = "up"
    /\ recovered
    /\ ~served
    /\ wal.file # <<>>
    /\ \E k \in Keys : /\ k \in DOMAIN disk
                       /\ LsmGet(lsm, disk, k) # DiskGet(disk, k)

\* C9: a client command, over TCP or UDP, is taken up only in a process
\* whose disk load and WAL replay have returned without error; a process
\* whose recovery failed is down and has taken up no command.
C9_NoCommandBeforeRecovery ==
    /\ (served \/ \E t \in Tasks : pc[t] # "idle") => (phase = "up" /\ recovered)
    /\ downBy = "panic" => (phase = "down" /\ ~served)

\* C9 happens: a command has been answered by a recovered server.
C9_Witness ==
    /\ served
    /\ recovered
    /\ \E t \in Tasks : reply[t].kind # "none"

\* C10: when the WAL append of a PUT or DEL returns an error, or the WAL
\* persist of a GET does, the client is sent an error and the command ends:
\* the mutation is not applied to the LSM index, the GET does not read it.
C10_WalErrorEndsCommand ==
    \A t \in Tasks :
        obs[t].errId # 0 =>
            /\ reply[t].kind = "ERR"
            /\ pc[t] = "idle"
            /\ obs[t].errId \notin applied
            /\ ~obs[t].seen

\* C10 happens: a command whose WAL call failed has ended, on a server
\* whose LSM index holds an earlier mutation.
C10_Witness ==
    \E t \in Tasks :
        /\ obs[t].errId # 0
        /\ reply[t].kind = "ERR"
        /\ applied # {}

\* C11: a PUT or DEL is applied to the LSM index only after its wal.Write
\* has returned without error, and is answered OK only once it is applied;
\* a GET reads the LSM index, and is answered with a value or not found,
\* only after its wal.Persist has returned without error.
C11_WalThenIndexThenReply ==
    /\ \A t \in Tasks :
          /\ pc[t] \in Mutating => (cur[t].walOk /\ cur[t].id \notin applied)
          /\ pc[t] = "get_lsm" => cur[t].walOk
          /\ obs[t].seen => obs[t].walOk
          /\ reply[t].kind \in {"VAL", "NOTFOUND"} => obs[t].seen
    /\ acked \subseteq applied

\* C11 happens: a mutation has been answered OK and a GET has been answered
\* from the LSM index.
C11_Witness ==
    /\ acked # {}
    /\ \E t \in Tasks : obs[t].seen /\ reply[t].kind = "VAL"

\* C12: a command line with no token, an unknown verb or the wrong number
\* of arguments for PUT, GET or DEL is answered "Invalid command" at once,
\* on TCP and on UDP, and the server goes on serving the connection.
C12_MalformedIsInvalid ==
    \A t \in Tasks :
        LET cmd == line[t].cmd
            malformed ==
                \/ Len(cmd) = 0
                \/ cmd[1] \notin {PUT, GET, DEL}
                \/ cmd[1] = PUT /\ Len(cmd) # 3
                \/ cmd[1] \in {GET, DEL} /\ Len(cmd) # 2
        IN (line[t].got /\ malformed) =>
              /\ phase = "up"
              /\ pc[t] = "idle"
              /\ reply[t].kind = "INVALID"

\* C13: after any sequence of accepted Write calls of Put and Delete
\* records whose keys and values hold no pipe and no newline, once Persist
\* has returned without error (and nothing was truncated), ReadEntries
\* yields exactly those records, in append order.
C13_WalRoundTrip ==
    (/\ walLog.synced
     /\ \A i \in 1..Len(walLog.recs) :
           LET token == walLog.recs[i].key \o walLog.recs[i].val
           IN \A j \in 1..Len(token) : token[j] \notin {Pipe, NL})
        => ReadEntries(wal.file) = walLog.recs

\* C13 happens: a Put and a Delete have been appended and persisted, and
\* the bufio buffer has filled up on the way.
C13_Witness ==
    /\ walLog.synced
    /\ Len(walLog.recs) >= 2
    /\ \E i \in 1..Len(walLog.recs) : walLog.recs[i].op = "del"
    /\ \E i \in 1..Len(walLog.recs) : walLog.recs[i].op = "put"
    /\ Len(wal.file) > BufSize
    /\ \A i \in 1..Len(walLog.recs) : walLog.recs[i].key \in Keys

\* C14: a PUT or DEL whose key or value holds a pipe and which the WAL has
\* accepted (so that the handler answers OK) is found by replay with the
\* same operation, key and value.
C14_PipeSurvivesReplay ==
    walLog.synced =>
        \A i \in 1..Len(walLog.recs) :
            (walLog.recs[i].key = PipedKey \/ walLog.recs[i].val = PipedValue) =>
                \E j \in 1..Len(ReadEntries(wal.file)) :
                    ReadEntries(wal.file)[j] = walLog.recs[i]

\* C15 as stated: replay applies exactly the lines that start with '+' and
\* split on pipe into 4 fields (put of field 2 with value field 3) and the
\* lines that start with '-' and split into 3 fields (delete of field 2),
\* in file order, and skips every other line.
C15_ReplayByFirstCharacter ==
    recovered =>
        LET lines == Split(wal.file, NL)
            f(i) == Split(lines[i], Pipe)
            isPut(i) == lines[i] # <<>> /\ lines[i][1] = "+" /\ Len(f(i)) = 4
            isDel(i) == lines[i] # <<>> /\ lines[i][1] = "-" /\ Len(f(i)) = 3
            hits(k) == {i \in 1..Len(lines) : (isPut(i) \/ isDel(i)) /\ f(i)[2] = k}
            last(k) == CHOOSE i \in hits(k) : \A j \in hits(k) : j <= i
            keys == {f(i)[2] : i \in {j \in 1..Len(lines) : isPut(j) \/ isDel(j)}}
        IN /\ DOMAIN lsm.mem = keys
           /\ \A k \in keys :
                 lsm.mem[k] = IF isPut(last(k))
                              THEN [del |-> FALSE, val |-> f(last(k))[3]]
                              ELSE [del |-> TRUE, val |-> <<>>]
           /\ lsm.bloom = {f(i)[2] : i \in {j \in 1..Len(lines) : isPut(j)}}

\* C15 as amended: replay applies exactly the lines whose first field is
\* '+' and that split on pipe into 4 fields (put of field 2 with value
\* field 3) and the lines whose first field is '-' and that split into 3
\* fields (delete of field 2), in file order, and skips every other line.
C15_ReplayByFirstField ==
    recovered =>
        LET lines == Split(wal.file, NL)
            f(i) == Split(lines[i], Pipe)
            isPut(i) == lines[i] # <<>> /\ f(i)[1] = <<"+">> /\ Len(f(i)) = 4
            isDel(i) == lines[i] # <<>> /\ f(i)[1] = <<"-">> /\ Len(f(i)) = 3
            hits(k) == {i \in 1..Len(lines) : (isPut(i) \/ isDel(i)) /\ f(i)[2] = k}
            last(k) == CHOOSE i \in hits(k) : \A j \in hits(k) : j <= i
            keys == {f(i)[2] : i \in {j \in 1..Len(lines) : isPut(j) \/ isDel(j)}}
        IN /\ DOMAIN lsm.mem = keys
           /\ \A k \in keys :
                 lsm.mem[k] = IF isPut(last(k))
                              THEN [del |-> FALSE, val |-> f(last(k))[3]]
                              ELSE [del |-> TRUE, val |-> <<>>]
           /\ lsm.bloom = {f(i)[2] : i \in {j \in 1..Len(lines) : isPut(j)}}

\* C15 happens: a replay has returned over a file that holds a record it
\* applies, after it a line it skips, and after that another record.
C15_Witness ==
    /\ recovered
    /\ \E i, j, k \in 1..Len(Split(wal.file, NL)) :
          /\ i < j
          /\ j < k
          /\ Split(wal.file, NL)[i] = <<"+", "|", "a", "|", "x", "|">>
          /\ Split(wal.file, NL)[j] = <<"+", "a", "|", "a", "|", "x", "|">>
          /\ Split(wal.file, NL)[k] = <<"-", "|", "a", "|">>
    /\ lsm.mem[<<"a">>].del

\* C16: under calls of Write, Persist, replay and Truncate from several
\* tasks, at most one task is inside the WAL at any time; the bytes taken
\* by the WAL's writer are the frames of the records whose Write returned
\* without error, whole and one after the other in the order the Writes
\* returned, followed at most by the beginning of the frame of the one
\* Write that is in progress or has failed; and what the WAL holds (file
\* then buffer) is a tail end of those bytes.
C16_OneInsideWholeFrames ==
    /\ Cardinality({t \in Tasks : pc[t] \in InWal}) <= 1
    /\ \A t \in Tasks : pc[t] \in InWal => mu = t
    /\ \E r \in WalRecords, n \in 0..BufSize :
          /\ n < Len(Frame(r))
          /\ walLog.bytes = Frames(walLog.recs) \o SubSeq(Frame(r), 1, n)
          /\ n > 0 => \/ wal.err
                      \/ \E t \in Tasks : /\ pc[t] \in {"w_args", "w_nl"}
                                          /\ Frame(r) = Frame(cur[t])
    /\ LET held == wal.file \o wal.buf
           n == Len(walLog.bytes)
       IN /\ Len(held) <= n
          /\ held = SubSeq(walLog.bytes, n - Len(held) + 1, n)

\* C16 happens: two Writes of different records have returned without
\* error, a task is inside a further Write with its newline still to
\* write, and a Truncate has emptied the file in between.
C16_Witness ==
    /\ Len(walLog.recs) = 2
    /\ walLog.recs[1] # walLog.recs[2]
    /\ \E t \in Tasks : pc[t] = "w_nl" /\ cur[t].op = "put"
    /\ Len(wal.file \o wal.buf) < Len(walLog.bytes)
    /\ ~wal.err

\* C17: once a DEL of K has been acknowledged, a GET of K issued after it
\* on any connection or by datagram returns not found as long as no PUT of
\* K has been acknowledged or is in progress, whether the tombstone is in
\* the memtable or has been flushed to the Disk Store.
C17_DeletedStaysDeleted ==
    \A t \in Tasks :
        (/\ obs[t].seen
         /\ obs[t].hasExp
         /\ ~obs[t].exp.found
         /\ obs[t].quiet)
            => ~obs[t].res.found

\* C17 happens, tombstone in the memtable: a GET answered after a DEL of a
\* key whose value the Disk Store holds.
C17_Witness ==
    \E t \in Tasks :
        /\ obs[t].seen
        /\ obs[t].hasExp
        /\ ~obs[t].exp.found
        /\ obs[t].quiet
        /\ obs[t].key \in DOMAIN disk
        /\ obs[t].key \in DOMAIN lsm.mem
        /\ lsm.mem[obs[t].key].del

\* C18: a GET of a key whose value is in the Disk Store and which is in
\* neither the memtable nor the Bloom filter returns the value the Disk
\* Store holds.
C18_DiskOnlyKeyIsFound ==
    \A t \in Tasks :
        (obs[t].seen /\ obs[t].hasExp)
            => (obs[t].res.found /\ obs[t].res = obs[t].exp)

\* C18 happens: such a GET has been answered, on an index that holds
\* another key in its memtable and filter.
C18_Witness ==
    \E t \in Tasks :
        /\ obs[t].seen
        /\ obs[t].hasExp
        /\ obs[t].key \in DOMAIN disk
        /\ obs[t].key \notin lsm.bloom
        /\ lsm.bloom # {}
        /\ lsm.mem # EmptyMap

\* C19: every key that is live in the memtable (present and not a
\* tombstone) is in the Bloom filter.
C19_LiveKeysInFilter ==
    \A k \in DOMAIN lsm.mem : ~lsm.mem[k].del => k \in lsm.bloom

\* C19 happens: after a disk load and WAL replay a key of the Disk Store
\* is live in the memtable, beside a tombstone of a key the filter does
\* not hold.
C19_Witness ==
    /\ \E k \in DOMAIN lsm.mem : ~lsm.mem[k].del /\ k \in DOMAIN disk
    /\ \E k \in DOMAIN lsm.mem : lsm.mem[k].del /\ k \notin lsm.bloom

\* C20: when the mutations issued on two connections have all been
\* acknowledged, no flush has run and each of them has its record in the
\* WAL, the LSM index returns for every key what a replay of the WAL (file,
\* then buffer) returns for it.
C20_ApplyOrderIsWalOrder ==
    (/\ \A t \in Tasks : pc[t] = "idle"
     /\ Cardinality(acked) >= 2
     /\ acked = applied
     /\ ingested = {}
     /\ disk = EmptyMap
     /\ ~wal.err
     /\ Len(ReadEntries(wal.file \o wal.buf)) = Cardinality(acked))
        => \A k \in Keys :
              LsmGet(lsm, disk, k)
                  = LsmGet(InitDB(EmptyLsm, wal.file \o wal.buf), EmptyMap, k)

\* C21: after a Truncate that found records written, a replay of the WAL
\* file returns none of them: what it returns are the first of the
\* records written after that Truncate, in order.
C21_TruncateRemovesAll ==
    walLog.cut > 0 =>
        LET es == ReadEntries(wal.file)
            later == SubSeq(walLog.recs, walLog.cut + 1, Len(walLog.recs))
        IN /\ Len(es) <= Len(later)
           /\ es = SubSeq(later, 1, Len(es))

\* C22: the request a UDP handler parses and answers is the datagram that
\* was received for it: the same bytes, hence the same command.
C22_HandlerRunsOwnDatagram ==
    \A x \in Handlers :
        udp.h[x].st = "parsed" =>
            /\ udp.h[x].req = udp.h[x].own
            /\ UdpDispatch(Fields(udp.h[x].req)) = UdpDispatch(Fields(udp.h[x].own))

\* C23: the persisting cycle's start signal is in its channel only when
\* LoadFromDisk has returned without error in this process, and the cycle
\* is at none of its steps (tick and ingest, WAL persist, WAL truncate)
\* before that.
C23_CycleAfterRecovery ==
    /\ startPersistingCycleSignal > 0 => (recovered /\ loader = "done")
    /\ cyc \in {"tick", "persist", "truncate"} => (recovered /\ loader = "done")

\* C23 happens: in a process that has taken up no command, the cycle has
\* ingested what the recovery loaded and is about to truncate the WAL.
C23_Witness ==
    /\ cyc = "truncate"
    /\ recovered
    /\ ~served
    /\ disk # EmptyMap

=============================================================================
